---- MODULE Spec2Model ----
(***************************************************************************)
(* A model of the Trie of src/lib.rs: a rooted tree of TrieNode values     *)
(* (map: HashMap<char, TrieNode>, end_of_word: bool) together with the     *)
(* cached size stored_size: Cell<Option<usize>>.                           *)
(*                                                                         *)
(* A Rust string is modelled as the sequence of its chars.  An Option is   *)
(* modelled as a set with at most one element: None is {} and Some(x) is   *)
(* {x}.  A HashMap is a function from the set of its keys.                 *)
(***************************************************************************)
EXTENDS Integers, Sequences, FiniteSets, TLC

\* ------------------------------------------------------------------ bounds
\* Longest string handed to an operation.
MaxLen == 2
\* Largest number of non-root nodes of the tree (guards insert and from).
MaxNodes == 4
\* Longest sequence handed to Trie::from.
MaxSeq == 2

\* ------------------------------------------------------------ chars, strings
\* "a" stands for a one-byte char, "E" for a two-byte char (U+00E9).
Alphabet == {"a", "E"}

\* char::len_utf8 of the chars above.
len_utf8(ch) == IF ch = "E" THEN 2 ELSE 1

\* All strings of at most MaxLen chars, the empty string included.
Strs == UNION {[1..n -> Alphabet] : n \in 0..MaxLen}

\* str::len(): the length of s in bytes, as used in remove_pref.
RECURSIVE str_len(_)
str_len(s) == IF s = <<>> THEN 0 ELSE len_utf8(Head(s)) + str_len(Tail(s))

\* s is a prefix of t.
IsPrefix(s, t) == Len(s) <= Len(t) /\ SubSeq(t, 1, Len(s)) = s

\* The iteration orders of a HashMap<char, _>: the permutations of Alphabet.
Orders == {p \in [1..Cardinality(Alphabet) -> Alphabet] :
             \A i, j \in DOMAIN p : p[i] = p[j] => i = j}

\* ------------------------------------------------------------------ Option
None == {}
Some(x) == {x}
unwrap(o) == CHOOSE x \in o : TRUE

\* ----------------------------------------------------------------- HashMap
EmptyMap == [c \in {} |-> FALSE]
\* HashMap::insert / entry().or_insert: m with key ch bound to n.
Put(m, ch, n) == [c \in (DOMAIN m) \cup {ch} |-> IF c = ch THEN n ELSE m[c]]
\* HashMap::remove: m without key ch.
Del(m, ch) == [c \in (DOMAIN m) \ {ch} |-> m[c]]
\* HashMap::len
MapLen(m) == Cardinality(DOMAIN m)

\* ---------------------------------------------------------------- TrieNode
\* TrieNode { map: HashMap::new(), end_of_word: false }
NewNode == [map |-> EmptyMap, end_of_word |-> FALSE]

\* The node at the end of the path s from node, if the path exists:
\* the loop shared by contains, contains_pref and as_vec_pref.
RECURSIVE get_path(_, _)
get_path(node, s) ==
  IF s = <<>> THEN Some(node)
  ELSE IF Head(s) \in DOMAIN node.map
       THEN get_path(node.map[Head(s)], Tail(s))
       ELSE None

\* Number of nodes strictly below node.
RECURSIVE SumNodes(_, _)
RECURSIVE NodeCount(_)
SumNodes(node, keys) ==
  IF keys = {} THEN 0
  ELSE LET ch == CHOOSE c \in keys : TRUE
       IN 1 + NodeCount(node.map[ch]) + SumNodes(node, keys \ {ch})
NodeCount(node) == SumNodes(node, DOMAIN node.map)

\* ------------------------------------------------------------------- state
VARIABLES
  root,         \* Trie.root
  stored_size,  \* Trie.stored_size
  panicked,     \* TRUE once an unwrap() on None has aborted the program
  call,         \* the last call: [op, arg]
  ret           \* what the last call returned

vars == <<root, stored_size, panicked, call, ret>>

\* ------------------------------------------------------------------- size
\* The recount loop of size(): every popped node adds 1 when it is
\* end_of_word; every child with an empty map adds 1 without being pushed,
\* every other child is pushed.
RECURSIVE count_values(_, _)
RECURSIVE count_popped(_)
count_values(node, keys) ==
  IF keys = {} THEN 0
  ELSE LET ch == CHOOSE c \in keys : TRUE
           x  == node.map[ch]
       IN (IF x.map = EmptyMap THEN 1 ELSE count_popped(x))
          + count_values(node, keys \ {ch})
\* count_popped that does not read end_of_word of the popped node.
count_popped_unread(node) == count_values(node, DOMAIN node.map)

count_popped(node) ==
  (IF node.end_of_word THEN 1 ELSE 0) + count_values(node, DOMAIN node.map)

\* The initial stack holds root.map.values(); each is popped.
RECURSIVE count_stack(_, _)
count_stack(r, keys) ==
  IF keys = {} THEN 0
  ELSE LET ch == CHOOSE c \in keys : TRUE
       IN count_popped(r.map[ch]) + count_stack(r, keys \ {ch})

\* size(): [ret, stored_size].
size(r, ss) ==
  IF ss # None
  THEN [ret |-> unwrap(ss), stored_size |-> ss]
  ELSE LET n == count_stack(r, DOMAIN r.map)
       IN [ret |-> n, stored_size |-> Some(n)]

\* edit_size whose decrement branch stores nothing.
edit_size_no_decr(ss, incr) ==
  IF ss = None THEN ss
  ELSE IF incr THEN Some(unwrap(ss) + 1)
  ELSE ss

\* edit_size(incr): the new stored_size.
edit_size(ss, incr) ==
  IF ss = None THEN ss
  ELSE IF incr THEN Some(unwrap(ss) + 1)
  ELSE IF unwrap(ss) # 0 THEN Some(unwrap(ss) - 1)
  ELSE ss

is_empty(r) == r.map = EmptyMap

\* ------------------------------------------------------------------ insert
\* The entry().or_insert() walk of insert followed by the end_of_word test:
\* [node, is_new].
RECURSIVE insert_walk(_, _)
\* insert_walk that binds a fresh node at every char (map.insert in place of
\* map.entry().or_insert), dropping what was below.
insert_walk_overwrite(node, s) ==
  IF s = <<>>
  THEN [node |-> [node EXCEPT !.end_of_word = TRUE],
        is_new |-> ~node.end_of_word]
  ELSE LET sub == insert_walk(NewNode, Tail(s))
       IN [node |-> [node EXCEPT !.map = Put(node.map, Head(s), sub.node)],
           is_new |-> sub.is_new]

insert_walk(node, s) ==
  IF s = <<>>
  THEN [node |-> [node EXCEPT !.end_of_word = TRUE],
        is_new |-> ~node.end_of_word]
  ELSE LET ch    == Head(s)
           child == IF ch \in DOMAIN node.map THEN node.map[ch] ELSE NewNode
           sub   == insert_walk(child, Tail(s))
       IN [node |-> [node EXCEPT !.map = Put(node.map, ch, sub.node)],
           is_new |-> sub.is_new]

\* insert that calls edit_size(true) whether or not the string is new.
insert_always_counts(r, ss, s) ==
  IF s = <<>>
  THEN [root |-> r, stored_size |-> ss, ret |-> FALSE]
  ELSE LET w == insert_walk(r, s)
       IN [root |-> w.node,
           stored_size |-> edit_size(ss, TRUE),
           ret |-> w.is_new]

\* insert without the early return on the empty string.
insert_accepts_empty(r, ss, s) ==
  LET w == insert_walk(r, s)
  IN [root |-> w.node,
      stored_size |-> IF w.is_new THEN edit_size(ss, TRUE) ELSE ss,
      ret |-> w.is_new]

\* insert(s): [root, stored_size, ret].
insert(r, ss, s) ==
  IF s = <<>>
  THEN [root |-> r, stored_size |-> ss, ret |-> FALSE]
  ELSE LET w == insert_walk(r, s)
       IN [root |-> w.node,
           stored_size |-> IF w.is_new THEN edit_size(ss, TRUE) ELSE ss,
           ret |-> w.is_new]

\* ---------------------------------------------------------------- contains
contains(r, s) ==
  LET n == get_path(r, s)
  IN IF n = None THEN FALSE ELSE unwrap(n).end_of_word

\* contains_pref that answers with end_of_word of the last node, as contains.
contains_pref_terminal(r, s) ==
  LET n == get_path(r, s)
  IN IF n = None THEN FALSE ELSE unwrap(n).end_of_word

contains_pref(r, s) == get_path(r, s) # None

\* ------------------------------------------------------------------ remove
\* clear_end_of_word that leaves the flag as it is.
clear_end_of_word_kept(node, s) == node

\* node with the end_of_word of the node at the end of path s set to FALSE
\* (node.end_of_word = false through the &mut reference of the first pass).
RECURSIVE clear_end_of_word(_, _)
clear_end_of_word(node, s) ==
  IF s = <<>> THEN [node EXCEPT !.end_of_word = FALSE]
  ELSE [node EXCEPT !.map = Put(node.map, Head(s),
                                clear_end_of_word(node.map[Head(s)], Tail(s)))]

\* remove_scan without the reset of remove_index at an end_of_word node.
RECURSIVE remove_scan_no_reset(_, _, _, _)
remove_scan_no_reset(s, i, node, remove_index) ==
  IF i = Len(s)
  THEN [found |-> TRUE, node |-> node, remove_index |-> remove_index]
  ELSE LET ch == s[i + 1]
       IN IF ch \in DOMAIN node.map
          THEN LET next_node == node.map[ch]
                   ri2 == IF MapLen(next_node.map) > 1 THEN None
                          ELSE IF remove_index = None THEN Some(i)
                          ELSE remove_index
               IN remove_scan_no_reset(s, i + 1, next_node, ri2)
          ELSE [found |-> FALSE, node |-> node, remove_index |-> remove_index]

\* First pass of remove from index i (counted from 0) at node:
\* [found, node, remove_index]; found is FALSE at the early return false.
RECURSIVE remove_scan(_, _, _, _)
remove_scan(s, i, node, remove_index) ==
  IF i = Len(s)
  THEN [found |-> TRUE, node |-> node, remove_index |-> remove_index]
  ELSE LET ch  == s[i + 1]
           ri1 == IF node.end_of_word THEN None ELSE remove_index
       IN IF ch \in DOMAIN node.map
          THEN LET next_node == node.map[ch]
                   ri2 == IF MapLen(next_node.map) > 1 THEN None
                          ELSE IF ri1 = None THEN Some(i)
                          ELSE ri1
               IN remove_scan(s, i + 1, next_node, ri2)
          ELSE [found |-> FALSE, node |-> node, remove_index |-> ri1]

\* detach that removes the last char's node whatever remove_index is.
RECURSIVE detach_last(_, _, _, _)
detach_last(node, s, i, remove_index) ==
  IF i >= Len(s) THEN Some(node)
  ELSE LET ch == s[i + 1]
       IN IF i = Len(s) - 1
          THEN Some([node EXCEPT !.map = Del(node.map, ch)])
          ELSE IF ch \notin DOMAIN node.map THEN None
          ELSE LET sub == detach_last(node.map[ch], s, i + 1, remove_index)
               IN IF sub = None THEN None
                  ELSE Some([node EXCEPT !.map = Put(node.map, ch, unwrap(sub))])

\* Second pass of remove and of remove_pref from index i at node: the node
\* after map.remove(&ch) at i = remove_index, or None when
\* map.get_mut(&ch).unwrap() panics.
RECURSIVE detach(_, _, _, _)
detach(node, s, i, remove_index) ==
  IF i >= Len(s) THEN Some(node)
  ELSE LET ch == s[i + 1]
       IN IF i = remove_index
          THEN Some([node EXCEPT !.map = Del(node.map, ch)])
          ELSE IF ch \notin DOMAIN node.map THEN None
          ELSE LET sub == detach(node.map[ch], s, i + 1, remove_index)
               IN IF sub = None THEN None
                  ELSE Some([node EXCEPT !.map = Put(node.map, ch, unwrap(sub))])

\* remove(s): [root, stored_size, ret, panicked].
remove(r, ss, s) ==
  LET same  == [root |-> r, stored_size |-> ss, ret |-> FALSE, panicked |-> FALSE]
      panic == [root |-> r, stored_size |-> ss, ret |-> "panic", panicked |-> TRUE]
  IN IF s = <<>> THEN same
     ELSE LET p == remove_scan(s, 0, r, None)
          IN IF ~p.found THEN same
             ELSE IF ~p.node.end_of_word THEN same
             ELSE IF p.node.map # EmptyMap
             THEN [root |-> clear_end_of_word(r, s),
                   stored_size |-> edit_size(ss, FALSE),
                   ret |-> TRUE, panicked |-> FALSE]
             ELSE IF p.remove_index = None THEN panic
             ELSE LET d == detach(r, s, 0, unwrap(p.remove_index))
                  IN IF d = None THEN panic
                     ELSE [root |-> unwrap(d),
                           stored_size |-> edit_size(ss, FALSE),
                           ret |-> TRUE, panicked |-> FALSE]

\* ------------------------------------------------------------- remove_pref
\* First pass of remove_pref from index i at node: [found, remove_index].
RECURSIVE pref_scan(_, _, _, _)
pref_scan(s, i, node, remove_index) ==
  IF i = Len(s)
  THEN [found |-> TRUE, remove_index |-> remove_index]
  ELSE LET ch == s[i + 1]
       IN IF ch \in DOMAIN node.map
          THEN LET next_node == node.map[ch]
                   ri == IF MapLen(next_node.map) > 1 /\ i # str_len(s) - 1
                         THEN None
                         ELSE IF remove_index = None THEN Some(i)
                         ELSE remove_index
               IN pref_scan(s, i + 1, next_node, ri)
          ELSE [found |-> FALSE, remove_index |-> remove_index]

\* remove_pref whose second pass is not followed by stored_size.set(None).
remove_pref_keeps_size(r, ss, s) ==
  LET same  == [root |-> r, stored_size |-> ss, ret |-> FALSE, panicked |-> FALSE]
      panic == [root |-> r, stored_size |-> ss, ret |-> "panic", panicked |-> TRUE]
  IN IF s = <<>> THEN same
     ELSE IF str_len(s) = 1
     THEN [root |-> [r EXCEPT !.map = Del(r.map, s[1])],
           stored_size |-> None,
           ret |-> s[1] \in DOMAIN r.map, panicked |-> FALSE]
     ELSE LET p == pref_scan(s, 0, r, None)
          IN IF ~p.found THEN same
             ELSE IF p.remove_index = None THEN panic
             ELSE LET d == detach(r, s, 0, unwrap(p.remove_index))
                  IN IF d = None THEN panic
                     ELSE [root |-> unwrap(d), stored_size |-> ss,
                           ret |-> TRUE, panicked |-> FALSE]

\* remove_pref(s): [root, stored_size, ret, panicked].
remove_pref(r, ss, s) ==
  LET same  == [root |-> r, stored_size |-> ss, ret |-> FALSE, panicked |-> FALSE]
      panic == [root |-> r, stored_size |-> ss, ret |-> "panic", panicked |-> TRUE]
  IN IF s = <<>> THEN same
     ELSE IF str_len(s) = 1
     THEN [root |-> [r EXCEPT !.map = Del(r.map, s[1])],
           stored_size |-> None,
           ret |-> s[1] \in DOMAIN r.map, panicked |-> FALSE]
     ELSE LET p == pref_scan(s, 0, r, None)
          IN IF ~p.found THEN same
             ELSE IF p.remove_index = None THEN panic
             ELSE LET d == detach(r, s, 0, unwrap(p.remove_index))
                  IN IF d = None THEN panic
                     ELSE [root |-> unwrap(d), stored_size |-> None,
                           ret |-> TRUE, panicked |-> FALSE]

\* ------------------------------------------------------------------- clear
\* clear that resets stored_size and leaves root.map as it is.
clear_keeps_map(r) == [root |-> r, stored_size |-> Some(0)]

\* clear(): [root, stored_size].
clear(r) == [root |-> [r EXCEPT !.map = EmptyMap], stored_size |-> Some(0)]

\* -------------------------------------------------------------- enumeration
\* The keys of node.map in the iteration order `order`.
MapIter(node, order) == SelectSeq(order, LAMBDA c : c \in DOMAIN node.map)

\* walk_nodes(tmp_string, node, all_strings): all_strings after the call.
\* walk_loop is the for loop over the remaining keys.
RECURSIVE walk_nodes(_, _, _, _)
RECURSIVE walk_loop(_, _, _, _, _)
\* walk_loop that descends only below nodes that are not end_of_word.
walk_loop_else_if(tmp_string, node, keys, all_strings, order) ==
  IF keys = <<>> THEN all_strings
  ELSE LET ch        == Head(keys)
           next_node == node.map[ch]
           pushed    == Append(tmp_string, ch)
           all2 == IF next_node.end_of_word
                   THEN Append(all_strings, pushed)
                   ELSE IF next_node.map # EmptyMap
                   THEN walk_nodes(pushed, next_node, all_strings, order)
                   ELSE all_strings
       IN walk_loop(tmp_string, node, Tail(keys), all2, order)

walk_loop(tmp_string, node, keys, all_strings, order) ==
  IF keys = <<>> THEN all_strings
  ELSE LET ch        == Head(keys)
           next_node == node.map[ch]
           pushed    == Append(tmp_string, ch)
           all1 == IF next_node.end_of_word
                   THEN Append(all_strings, pushed) ELSE all_strings
           all2 == IF next_node.map # EmptyMap
                   THEN walk_nodes(pushed, next_node, all1, order) ELSE all1
       IN walk_loop(tmp_string, node, Tail(keys), all2, order)
walk_nodes(tmp_string, node, all_strings, order) ==
  walk_loop(tmp_string, node, MapIter(node, order), all_strings, order)

as_vec(r, order) == walk_nodes(<<>>, r, <<>>, order)

\* as_vec_pref without the end_of_word test of the prefix node itself.
as_vec_pref_below(r, s, order) ==
  IF s = <<>> THEN <<>>
  ELSE LET n == get_path(r, s)
       IN IF n = None THEN <<>>
          ELSE walk_nodes(s, unwrap(n), <<>>, order)

as_vec_pref(r, s, order) ==
  IF s = <<>> THEN <<>>
  ELSE LET n == get_path(r, s)
       IN IF n = None THEN <<>>
          ELSE walk_nodes(s, unwrap(n),
                          IF unwrap(n).end_of_word THEN <<s>> ELSE <<>>,
                          order)

\* --------------------------------------------------------------------- from
\* impl From<&Vec<&str>> for Trie: [root, stored_size] after inserting the
\* strings of sequence, in order, into Trie::new().
RECURSIVE from_loop(_, _, _)
from_loop(r, ss, sequence) ==
  IF sequence = <<>> THEN [root |-> r, stored_size |-> ss]
  ELSE LET res == insert(r, ss, Head(sequence))
       IN from_loop(res.root, res.stored_size, Tail(sequence))
from(sequence) == from_loop(NewNode, Some(0), sequence)

\* The sequences handed to Trie::from.
FromArgs == UNION {[1..n -> Strs] : n \in 0..MaxSeq}

\* ------------------------------------------------------------------- actions
Insert(s) ==
  LET res == insert(root, stored_size, s)
  IN /\ ~panicked
     /\ NodeCount(res.root) <= MaxNodes
     /\ root' = res.root
     /\ stored_size' = res.stored_size
     /\ call' = [op |-> "insert", arg |-> s]
     /\ ret' = res.ret
     /\ UNCHANGED panicked

Remove(s) ==
  LET res == remove(root, stored_size, s)
  IN /\ ~panicked
     /\ root' = res.root
     /\ stored_size' = res.stored_size
     /\ panicked' = res.panicked
     /\ call' = [op |-> "remove", arg |-> s]
     /\ ret' = res.ret

RemovePref(s) ==
  LET res == remove_pref(root, stored_size, s)
  IN /\ ~panicked
     /\ root' = res.root
     /\ stored_size' = res.stored_size
     /\ panicked' = res.panicked
     /\ call' = [op |-> "remove_pref", arg |-> s]
     /\ ret' = res.ret

Clear ==
  /\ ~panicked
  /\ root' = clear(root).root
  /\ stored_size' = clear(root).stored_size
  /\ call' = [op |-> "clear", arg |-> <<>>]
  /\ ret' = "unit"
  /\ UNCHANGED panicked

Size ==
  /\ ~panicked
  /\ stored_size' = size(root, stored_size).stored_size
  /\ call' = [op |-> "size", arg |-> <<>>]
  /\ ret' = size(root, stored_size).ret
  /\ UNCHANGED <<root, panicked>>

IsEmpty ==
  /\ ~panicked
  /\ call' = [op |-> "is_empty", arg |-> <<>>]
  /\ ret' = is_empty(root)
  /\ UNCHANGED <<root, stored_size, panicked>>

Contains(s) ==
  /\ ~panicked
  /\ call' = [op |-> "contains", arg |-> s]
  /\ ret' = contains(root, s)
  /\ UNCHANGED <<root, stored_size, panicked>>

ContainsPref(s) ==
  /\ ~panicked
  /\ call' = [op |-> "contains_pref", arg |-> s]
  /\ ret' = contains_pref(root, s)
  /\ UNCHANGED <<root, stored_size, panicked>>

AsVec(order) ==
  /\ ~panicked
  /\ call' = [op |-> "as_vec", arg |-> <<>>]
  /\ ret' = as_vec(root, order)
  /\ UNCHANGED <<root, stored_size, panicked>>

AsVecPref(s, order) ==
  /\ ~panicked
  /\ call' = [op |-> "as_vec_pref", arg |-> s]
  /\ ret' = as_vec_pref(root, s, order)
  /\ UNCHANGED <<root, stored_size, panicked>>

\* The state after construction: Trie::new() or Trie::from(sequence).
Init ==
  /\ panicked = FALSE
  /\ \/ /\ root = NewNode
        /\ stored_size = Some(0)
        /\ call = [op |-> "new", arg |-> <<>>]
        /\ ret = "unit"
     \/ \E sequence \in FromArgs :
          /\ NodeCount(from(sequence).root) <= MaxNodes
          /\ root = from(sequence).root
          /\ stored_size = from(sequence).stored_size
          /\ call = [op |-> "from", arg |-> sequence]
          /\ ret = "unit"

Next ==
  \/ \E s \in Strs : Insert(s)
  \/ \E s \in Strs : Remove(s)
  \/ \E s \in Strs : RemovePref(s)
  \/ Clear
  \/ Size
  \/ IsEmpty
  \/ \E s \in Strs : Contains(s)
  \/ \E s \in Strs : ContainsPref(s)
  \/ \E order \in Orders : AsVec(order)
  \/ \E s \in Strs, order \in Orders : AsVecPref(s, order)

Spec == Init /\ [][Next]_vars

\* ------------------------------------------------------- auxiliary notions
\* The elements of a sequence, and whether it holds none twice.
Range(v) == {v[i] : i \in DOMAIN v}
NoDup(v) == \A i, j \in DOMAIN v : v[i] = v[j] => i = j

\* The strings the trie r reports as contained.
Stored(r) == {t \in Strs : contains(r, t)}

\* What size() answers in the current state.
SizeNow == size(root, stored_size).ret

\* ------------------------------------------------------------------ claims

\* C1: immediately after insert(s) with s non-empty contains(s) is true, and
\* immediately after a remove(s) that follows that insert(s) contains(s) is
\* false.
C1_RoundTrip ==
  [][ /\ (call'.op = "insert" /\ call'.arg # <<>>)
         => contains(root', call'.arg)
      /\ (/\ call.op = "insert" /\ call.arg # <<>>
          /\ call'.op = "remove" /\ call'.arg = call.arg)
         => (~panicked' /\ ret' = TRUE /\ ~contains(root', call'.arg))
    ]_vars

\* A successful remove(s) has just returned and s is gone while other
\* strings are still stored.
C1_Witness ==
  /\ call.op = "remove" /\ ret = TRUE
  /\ ~contains(root, call.arg)
  /\ Stored(root) # {}

\* C3: remove(s) leaves contains(t) as it was for every string t other
\* than s.
C3_RemoveFrame ==
  [][ call'.op = "remove"
      => \A t \in Strs \ {call'.arg} : contains(root', t) = contains(root, t)
    ]_vars

\* A successful remove(s) has just returned while a proper prefix of s and
\* a string that is no prefix of s are both still stored.
C3_Witness ==
  /\ call.op = "remove" /\ ret = TRUE
  /\ \E t \in Stored(root) : IsPrefix(t, call.arg) /\ t # call.arg
  /\ \E t \in Stored(root) : ~IsPrefix(t, call.arg)
\* C2: remove_pref(s), for non-empty s whose path exists, removes exactly
\* the stored strings that have s as a prefix: afterwards contains(t) holds
\* iff it held before and s is no prefix of t.  (Stated of the calls that
\* return; the calls that end in a panic are the subject of C17.)
C2_RemovePrefExact ==
  [][ (/\ call'.op = "remove_pref" /\ call'.arg # <<>>
       /\ contains_pref(root, call'.arg)
       /\ ~panicked')
      => \A t \in Strs :
           contains(root', t) = (contains(root, t) /\ ~IsPrefix(call'.arg, t))
    ]_vars

\* C4: size() equals the number of strings as_vec() returns, in every
\* iteration order, whether stored_size is Some or None.
C4_SizeConsistency ==
  \A order \in Orders : SizeNow = Len(as_vec(root, order))

\* stored_size is None, so size() recounts, and at least two strings are
\* stored, one of them at a node that has children.
C4_Witness ==
  /\ stored_size = None
  /\ Cardinality(Stored(root)) >= 2
  /\ \E t \in Stored(root) : unwrap(get_path(root, t)).map # EmptyMap

\* C5: remove(s) returns true iff contains(s) held before the call; on true
\* size() is one less than before, on false root and size() are unchanged.
C5_RemoveResult ==
  [][ call'.op = "remove"
      => /\ ~panicked'
         /\ ret' = contains(root, call'.arg)
         /\ ret' = TRUE => size(root', stored_size').ret = SizeNow - 1
         /\ ret' = FALSE => (root' = root /\ size(root', stored_size').ret = SizeNow)
    ]_vars

\* A remove has just returned true with stored_size Some and strings left.
C5_Witness ==
  /\ call.op = "remove" /\ ret = TRUE
  /\ stored_size # None
  /\ SizeNow >= 1

\* C6: insert(s) returns true iff s is non-empty and contains(s) was false;
\* on false size() and the stored strings are unchanged, on true size() is
\* one more than before.
C6_InsertResult ==
  [][ call'.op = "insert"
      => /\ ret' = (call'.arg # <<>> /\ ~contains(root, call'.arg))
         /\ ret' = FALSE => /\ size(root', stored_size').ret = SizeNow
                            /\ Stored(root') = Stored(root)
         /\ ret' = TRUE => size(root', stored_size').ret = SizeNow + 1
    ]_vars

\* An insert of a stored string has just returned false.
C6_Witness ==
  /\ call.op = "insert" /\ ret = FALSE
  /\ call.arg # <<>>
  /\ contains(root, call.arg)
  /\ SizeNow >= 2

\* C7: remove_pref(s) for non-empty s returns true iff the path for s
\* existed before the call, which is the same as some stored string having
\* had s as a prefix.
C7_RemovePrefResult ==
  [][ (call'.op = "remove_pref" /\ call'.arg # <<>>)
      => /\ ~panicked'
         /\ ret' = contains_pref(root, call'.arg)
         /\ ret' = (\E t \in Stored(root) : IsPrefix(call'.arg, t))
    ]_vars

\* C8: insert(""), remove("") and remove_pref("") return false and leave
\* size() and the stored strings unchanged; contains("") is false.
C8_EmptyRejected ==
  /\ [](~contains(root, <<>>))
  /\ [][ /\ (call'.op \in {"insert", "remove", "remove_pref"} /\ call'.arg = <<>>)
            => /\ ~panicked'
               /\ ret' = FALSE
               /\ size(root', stored_size').ret = SizeNow
               /\ Stored(root') = Stored(root)
         /\ (call'.op = "contains" /\ call'.arg = <<>>) => ret' = FALSE
       ]_vars

\* A call with the empty string has just returned on a trie that stores
\* strings.
C8_Witness ==
  /\ call.op \in {"insert", "remove", "remove_pref"}
  /\ call.arg = <<>>
  /\ ret = FALSE
  /\ Stored(root) # {}

\* C9: as_vec() returns every contained string once and nothing else; after
\* Trie::from on a duplicate-free sequence of non-empty strings it returns
\* exactly the strings of that sequence.
C9_EnumerationComplete ==
  \A order \in Orders :
    LET v == as_vec(root, order)
    IN /\ NoDup(v)
       /\ Range(v) = Stored(root)
       /\ (/\ call.op = "from"
           /\ NoDup(call.arg)
           /\ <<>> \notin Range(call.arg))
          => Range(v) = Range(call.arg)

\* as_vec() has just returned at least two strings, one a proper prefix of
\* another.
C9_Witness ==
  /\ call.op = "as_vec"
  /\ \E i, j \in DOMAIN ret : ret[i] # ret[j] /\ IsPrefix(ret[i], ret[j])

\* C10: as_vec_pref(s) returns, for non-empty s, every stored string that
\* has s as a prefix once and nothing else, and the empty sequence for
\* empty s or a missing path.
C10_EnumerationByPrefix ==
  \A s \in Strs, order \in Orders :
    LET v == as_vec_pref(root, s, order)
    IN /\ NoDup(v)
       /\ Range(v) = IF s = <<>> THEN {}
                     ELSE {t \in Stored(root) : IsPrefix(s, t)}
       /\ (s = <<>> \/ ~contains_pref(root, s)) => v = <<>>

\* as_vec_pref(s) has just returned s itself and a longer string, while a
\* string without the prefix s is stored too.
C10_Witness ==
  /\ call.op = "as_vec_pref"
  /\ call.arg \in Range(ret)
  /\ Len(ret) >= 2
  /\ \E t \in Stored(root) : ~IsPrefix(call.arg, t)
C12_PrefixMonotone ==
  \A s \in Strs :
    contains(root, s)
    => \A p \in Strs : IsPrefix(p, s) => contains_pref(root, p)

\* contains(s) has just returned true for an s of at least two chars whose
\* proper prefixes are not all stored.
C12_Witness ==
  /\ call.op = "contains" /\ ret = TRUE
  /\ Len(call.arg) >= 2
  /\ \E p \in Strs : IsPrefix(p, call.arg) /\ p # <<>> /\ ~contains(root, p)
\* The sequences that hold the strings of sequence in another order.
Reorderings(sequence) ==
  {[i \in DOMAIN sequence |-> sequence[p[i]]] :
     p \in {q \in [DOMAIN sequence -> DOMAIN sequence] :
              \A i, j \in DOMAIN sequence : q[i] = q[j] => i = j}}

\* C13: Trie::from on the same strings in any order yields the same node
\* tree, the same stored strings and the same size().
C13_InsertOrder ==
  call.op = "from"
  => \A other \in Reorderings(call.arg) :
       /\ from(other).root = root
       /\ Stored(from(other).root) = Stored(root)
       /\ size(from(other).root, from(other).stored_size).ret = SizeNow

\* Trie::from has just built a trie from two different strings, the first
\* a proper prefix of the second, so the two orders create different nodes
\* first.
C13_Witness ==
  /\ call.op = "from"
  /\ Len(call.arg) >= 2
  /\ call.arg[1] # call.arg[2]
  /\ call.arg[1] # <<>>
  /\ IsPrefix(call.arg[1], call.arg[2])
  /\ Cardinality(Stored(root)) = 2
\* C14: is_empty() is true iff size() is 0.
C14_IsEmptyIffSizeZero ==
  is_empty(root) = (SizeNow = 0)

\* is_empty() has just returned true on a trie that was emptied by removals,
\* with stored_size None so that size() recounts.
C14_Witness ==
  /\ call.op = "is_empty" /\ ret = TRUE
  /\ stored_size = None
\* node is end_of_word or has a descendant that is.
RECURSIVE HasTerminal(_)
HasTerminal(node) ==
  node.end_of_word \/ \E ch \in DOMAIN node.map : HasTerminal(node.map[ch])

\* Every node strictly below node is end_of_word or has such a descendant.
RECURSIVE NoDangling(_)
NoDangling(node) ==
  \A ch \in DOMAIN node.map :
    HasTerminal(node.map[ch]) /\ NoDangling(node.map[ch])

\* Every node strictly below node that has no children is end_of_word.
RECURSIVE LeavesTerminal(_)
LeavesTerminal(node) ==
  \A ch \in DOMAIN node.map :
    /\ node.map[ch].map = EmptyMap => node.map[ch].end_of_word
    /\ LeavesTerminal(node.map[ch])

\* C15: after every completed operation every node other than the root is
\* end_of_word or has an end_of_word descendant; equivalently every leaf is
\* end_of_word.
C15_NoDanglingNodes ==
  NoDangling(root) /\ LeavesTerminal(root)

\* A remove or remove_pref has just detached the node of its argument and
\* left other nodes in the tree.
C15_Witness ==
  /\ call.op \in {"remove", "remove_pref"} /\ ret = TRUE
  /\ get_path(root, call.arg) = None
  /\ root.map # EmptyMap
\* The number of end_of_word nodes at and below node.
RECURSIVE TerminalSum(_, _)
RECURSIVE TerminalCount(_)
TerminalSum(node, keys) ==
  IF keys = {} THEN 0
  ELSE LET ch == CHOOSE c \in keys : TRUE
       IN TerminalCount(node.map[ch]) + TerminalSum(node, keys \ {ch})
TerminalCount(node) ==
  (IF node.end_of_word THEN 1 ELSE 0) + TerminalSum(node, DOMAIN node.map)

\* C16: whenever stored_size is Some(n), n is the number of end_of_word
\* nodes; a successful insert or remove moves Some(n) to Some(n + 1) or
\* Some(n - 1) and leaves None alone, a successful remove_pref sets None,
\* clear sets Some(0); and edit_size(false) is never called at Some(0).
C16_CacheInvariant ==
  /\ [](stored_size # None => unwrap(stored_size) = TerminalCount(root))
  /\ [][ /\ (call'.op = "insert" /\ ret' = TRUE)
            => stored_size' = IF stored_size = None THEN None
                              ELSE Some(unwrap(stored_size) + 1)
         /\ (call'.op = "remove" /\ ~panicked' /\ ret' = TRUE)
            => /\ stored_size # Some(0)
               /\ stored_size' = IF stored_size = None THEN None
                                 ELSE Some(unwrap(stored_size) - 1)
         /\ (call'.op = "remove_pref" /\ ~panicked' /\ ret' = TRUE)
            => stored_size' = None
         /\ call'.op = "clear" => stored_size' = Some(0)
       ]_vars

\* A remove has just lowered a known stored_size to Some(1).
C16_Witness ==
  /\ call.op = "remove" /\ ret = TRUE
  /\ stored_size = Some(1)
  /\ TerminalCount(root) = 1
\* C17: remove_pref(s) with a non-empty s whose path exists, multi-byte
\* chars in s included, does not panic at remove_index.unwrap(), and a
\* one-char s detaches that child of the root.
C17_RemovePrefTotal ==
  [][ (/\ call'.op = "remove_pref" /\ call'.arg # <<>>
       /\ contains_pref(root, call'.arg))
      => /\ ~panicked'
         /\ Len(call'.arg) = 1 => call'.arg[1] \notin DOMAIN root'.map
    ]_vars

\* C18: whenever remove_pref(s) returns false, root and stored_size are the
\* same as before the call.
C18_RejectedRemovePrefNoOp ==
  [][ (call'.op = "remove_pref" /\ ~panicked' /\ ret' = FALSE)
      => (root' = root /\ stored_size' = stored_size)
    ]_vars
\* C19: remove never panics; and for every s that would reach the second
\* pass of remove (s stored, its node without children) remove_index is
\* Some(k), the second pass meets no missing child, and the child detached
\* at k heads a chain of non-terminal single-child nodes that ends in the
\* node of s.
C19_RemoveSecondPass ==
  /\ call.op = "remove" => ~panicked
  /\ \A s \in Strs \ {<<>>} :
       LET p == remove_scan(s, 0, root, None)
       IN (p.found /\ p.node.end_of_word /\ p.node.map = EmptyMap)
          => /\ p.remove_index # None
             /\ LET k == unwrap(p.remove_index)
                IN /\ k \in 0..(Len(s) - 1)
                   /\ detach(root, s, 0, k) # None
                   /\ \A j \in (k + 1)..Len(s) :
                        LET n == unwrap(get_path(root, SubSeq(s, 1, j)))
                        IN IF j < Len(s)
                           THEN ~n.end_of_word /\ MapLen(n.map) = 1
                           ELSE n.end_of_word /\ n.map = EmptyMap

\* A remove has just detached, at the root, a chain of at least two nodes
\* and left other nodes in the tree.
C19_Witness ==
  /\ call.op = "remove" /\ ret = TRUE
  /\ Len(call.arg) >= 2
  /\ get_path(root, <<call.arg[1]>>) = None
  /\ root.map # EmptyMap
====
